---- MODULE Spec2Model ----
(***************************************************************************)
(* A model of typed-client: the config merge (utils.ts), the declaration   *)
(* of groups and endpoints (client.ts, createGroup), and the invocation    *)
(* pipeline of an endpoint (endpoint.ts).                                  *)
(*                                                                         *)
(* The specifications of the module:                                       *)
(*   SpecMerge  mergeConfigs applied to pairs of declared configs;         *)
(*   SpecAssoc  mergeConfigs applied to three configs, grouped both ways;  *)
(*   SpecChain  a chain client -> group -> ... -> endpoint, declared from  *)
(*              a given sequence of configs;                               *)
(*   SpecTree   a client on which groups and endpoints are declared, and   *)
(*              mock/unmock are called;                                    *)
(*   Spec       one declared endpoint on which mock, unmock and invoke are *)
(*              called, invoke being the chain of awaits of handle.        *)
(***************************************************************************)
EXTENDS Integers, Sequences, FiniteSets, TLC

VARIABLES
  client,     \* ClientState: url, config, groups, endpoints (ids in push order)
  groups,     \* group id -> GroupState (ids in declaration order)
  endpoints,  \* endpoint id -> the closure of createEndpoint: its `state`
  lastOp,     \* history: endpoint id -> the last mock-state call made on it
  parent,     \* history: the node on whose factory each group/endpoint was declared
  created,    \* history: endpoint id -> its `state` as createEndpoint built it
  bcast,      \* history: the last call, when it was unmock() on a client/group
  calls,      \* the invocations made so far, each with its position in handle
  mA, mB,     \* SpecMerge: the two arguments of mergeConfigs
  mOut,       \* SpecMerge: the result, once computed
  mC,         \* SpecAssoc: the third config
  mAlt,       \* SpecAssoc: the result of the other grouping, once computed
  chain,      \* SpecChain: the configs to declare, outermost group first
  build,      \* SpecUrl: the arguments of appendPath and buildUrl, and their results
  boot,       \* SpecClient: global.fetch, the options, and how createClient ended
  trio        \* SpecEmpty: a config, a request, a response, and what the three
              \* declarations of one endpoint make of them

vars == <<client, groups, endpoints, lastOp, parent, created, bcast, calls,
          mA, mB, mOut, mC, mAlt, chain, build, boot, trio>>

----------------------------------------------------------------------------
(* Bounds *)

MaxNodes == 3   \* SpecTree: groups + endpoints declared on one client
MaxCalls == 1   \* Spec: invocations started in one behaviour

----------------------------------------------------------------------------
(* Values.  A JavaScript object is a function from key to value; a value   *)
(* that may be undefined carries a flag.                                   *)

EmptyObj == [k \in {} |-> "x"]

Undefined == [def |-> FALSE, obj |-> EmptyObj]

Obj(o) == [def |-> TRUE, obj |-> o]

\* a string, by its characters
Str(chars) == [def |-> TRUE, str |-> chars]

IsObject(x) == x.def /\ "obj" \in DOMAIN x

\* the values `x && ...` and `x || ...` take for true: every object, and
\* every string but the empty one
Truthy(x) == x.def /\ (IsObject(x) \/ x.str # <<>>)

\* typeof of a leaf value
TypeOf(v) == IF v \in {"1", "2"} THEN "number" ELSE "string"

(* A validator is a zod object schema: its shape maps a field to the type  *)
(* it requires.  An unset slot is NoSchema.                                *)
NoSchema == [def |-> FALSE, shape |-> EmptyObj]

Schema(shape) == [def |-> TRUE, shape |-> shape]

\* z.object(shape).parse(x): x must be an object holding every field of the
\* shape with the required type; the keys the shape does not name are stripped.
Parse(schema, x) ==
  IF /\ IsObject(x)
     /\ \A f \in DOMAIN schema.shape :
          f \in DOMAIN x.obj /\ TypeOf(x.obj[f]) = schema.shape[f]
  THEN [ok |-> TRUE, val |-> Obj([f \in DOMAIN schema.shape |-> x.obj[f]])]
  ELSE [ok |-> FALSE, val |-> Undefined]

\* {...a, ...b}
Spread(a, b) ==
  [k \in (DOMAIN a) \cup (DOMAIN b) |-> IF k \in DOMAIN b THEN b[k] ELSE a[k]]

----------------------------------------------------------------------------
(* BaseEndpointConfig.  responses.def tells an absent map from an empty    *)
(* one: an empty object is truthy.  A config argument that was not passed  *)
(* is NoConfig.                                                            *)

NoResponses == [def |-> FALSE, map |-> EmptyObj]

Responses(m) == [def |-> TRUE, map |-> m]

Entry(h, b) == [headers |-> h, body |-> b]

Config(p, h, q, b, r) ==
  [params |-> p, headers |-> h, query |-> q, body |-> b, responses |-> r]

EmptyConfig == Config(NoSchema, NoSchema, NoSchema, NoSchema, NoResponses)

NoConfig == [given |-> FALSE, cfg |-> EmptyConfig]

Given(c) == [given |-> TRUE, cfg |-> c]

----------------------------------------------------------------------------
(* utils.ts *)

mergeSchemas_childDropped(a, b) == Schema(Spread(b.shape, a.shape))

\* z.object({...a.shape, ...b.shape})
mergeSchemas(a, b) == Schema(Spread(a.shape, b.shape))

\* a.params && b.params ? mergeSchemas(a.params, b.params) : b.params || a.params
mergeSlot(a, b) ==
  IF a.def /\ b.def THEN mergeSchemas(a, b) ELSE IF b.def THEN b ELSE a

mergeBody_parentFirst(a, b) == IF a.def THEN a ELSE b

\* b.body || a.body
mergeBody(a, b) == IF b.def THEN b ELSE a

mergeResponses_parentWins(a, b) ==
  Responses(Spread(IF b.def THEN b.map ELSE EmptyObj,
                   IF a.def THEN a.map ELSE EmptyObj))

\* {...(a.responses || {}), ...(b.responses || {})}
mergeResponses(a, b) ==
  Responses(Spread(IF a.def THEN a.map ELSE EmptyObj,
                   IF b.def THEN b.map ELSE EmptyObj))

mergeConfigs_returnsChild(a, b) ==
  IF ~a.given \/ ~b.given
  THEN b
  ELSE Given([params    |-> mergeSlot(a.cfg.params, b.cfg.params),
              headers   |-> mergeSlot(a.cfg.headers, b.cfg.headers),
              query     |-> mergeSlot(a.cfg.query, b.cfg.query),
              body      |-> mergeBody(a.cfg.body, b.cfg.body),
              responses |-> mergeResponses(a.cfg.responses, b.cfg.responses)])

\* if (!a || !b) return b || a
mergeConfigs(a, b) ==
  IF ~a.given \/ ~b.given
  THEN (IF b.given THEN b ELSE a)
  ELSE Given([params    |-> mergeSlot(a.cfg.params, b.cfg.params),
              headers   |-> mergeSlot(a.cfg.headers, b.cfg.headers),
              query     |-> mergeSlot(a.cfg.query, b.cfg.query),
              body      |-> mergeBody(a.cfg.body, b.cfg.body),
              responses |-> mergeResponses(a.cfg.responses, b.cfg.responses)])

----------------------------------------------------------------------------
(* Strings are sequences of characters.  appendPath is path.join (posix):  *)
(* the non-empty arguments joined by "/", then normalized.                 *)

RECURSIVE SplitSegs(_)
\* s.split("/")
SplitSegs(s) ==
  IF s = <<>> THEN << <<>> >>
  ELSE LET rest == SplitSegs(Tail(s)) IN
       IF Head(s) = "/" THEN << <<>> >> \o rest
       ELSE << <<Head(s)>> \o Head(rest) >> \o Tail(rest)

RECURSIVE NormSegs(_, _, _)
\* normalizeString: empty and "." segments are dropped, ".." removes the
\* segment before it (or is kept, above the root of a relative path).
NormSegs(segs, acc, allowAboveRoot) ==
  IF segs = <<>> THEN acc
  ELSE LET s == Head(segs) IN
       IF s = <<>> \/ s = <<".">>
       THEN NormSegs(Tail(segs), acc, allowAboveRoot)
       ELSE IF s = <<".", ".">>
       THEN IF acc # <<>> /\ acc[Len(acc)] # <<".", ".">>
            THEN NormSegs(Tail(segs), SubSeq(acc, 1, Len(acc) - 1), allowAboveRoot)
            ELSE IF allowAboveRoot
            THEN NormSegs(Tail(segs), Append(acc, s), allowAboveRoot)
            ELSE NormSegs(Tail(segs), acc, allowAboveRoot)
       ELSE NormSegs(Tail(segs), Append(acc, s), allowAboveRoot)

RECURSIVE JoinSegs(_)
\* segs.join("/")
JoinSegs(segs) ==
  IF segs = <<>> THEN <<>>
  ELSE IF Len(segs) = 1 THEN Head(segs)
  ELSE Head(segs) \o <<"/">> \o JoinSegs(Tail(segs))

\* path.posix.normalize
normalize(path) ==
  IF path = <<>> THEN <<".">>
  ELSE LET isAbsolute == Head(path) = "/"
           trailingSeparator == path[Len(path)] = "/"
           p == JoinSegs(NormSegs(SplitSegs(path), <<>>, ~isAbsolute))
       IN IF p = <<>>
          THEN (IF isAbsolute THEN <<"/">>
                ELSE IF trailingSeparator THEN <<".", "/">> ELSE <<".">>)
          ELSE (IF isAbsolute THEN <<"/">> ELSE <<>>) \o p
               \o (IF trailingSeparator THEN <<"/">> ELSE <<>>)

\* path.posix.join(url, path)
join(url, path) ==
  IF url = <<>> /\ path = <<>> THEN <<".">>
  ELSE IF url = <<>> THEN normalize(path)
  ELSE IF path = <<>> THEN normalize(url)
  ELSE normalize(url \o <<"/">> \o path)

appendPath(url, path) == join(url, path)

----------------------------------------------------------------------------
(* endpoint.ts: buildUrl.  The keys of an object are listed in the order   *)
(* of Names; a leaf value is one character long.                           *)

\* the characters of an object key
Spell ==
  [id |-> <<"i", "d">>, idx |-> <<"i", "d", "x">>, page |-> <<"p", "a", "g", "e">>,
   q |-> <<"q">>, junk |-> <<"j", "u", "n", "k">>, email |-> <<"e", "m", "a", "i", "l">>,
   token |-> <<"t", "o", "k", "e", "n">>]

Names == <<"id", "idx", "page", "q", "junk", "email", "token">>

\* Object.keys(o)
Keys(o) == SelectSeq(Names, LAMBDA k : k \in DOMAIN o)

\* String(v)
ToChars(v) == IF v = "" THEN <<>> ELSE <<v>>

RECURSIVE InsertByLength(_, _)
\* k put behind the names that are not longer than it
InsertByLength(sorted, k) ==
  IF sorted = <<>> THEN <<k>>
  ELSE IF Len(Spell[Head(sorted)]) <= Len(Spell[k])
  THEN <<Head(sorted)>> \o InsertByLength(Tail(sorted), k)
  ELSE <<k>> \o sorted

RECURSIVE SortByLength(_)
\* paramsNames.sort((a, b) => a.length - b.length): ascending, stable
SortByLength(names) ==
  IF names = <<>> THEN <<>>
  ELSE InsertByLength(SortByLength(SubSeq(names, 1, Len(names) - 1)), names[Len(names)])

Pattern_bareName(name) == Spell[name]

Pattern_colonOnly(name) == <<":">>

\* `:${name}`
Pattern(name) == <<":">> \o Spell[name]

RECURSIVE replaceAll(_, _, _)
\* s.replaceAll(pattern, value): the occurrences of the pattern, left to right,
\* none overlapping another, the inserted text not searched again
replaceAll(s, pattern, value) ==
  IF Len(s) < Len(pattern) THEN s
  ELSE IF SubSeq(s, 1, Len(pattern)) = pattern
  THEN value \o replaceAll(SubSeq(s, Len(pattern) + 1, Len(s)), pattern, value)
  ELSE <<Head(s)>> \o replaceAll(Tail(s), pattern, value)

RECURSIVE substitute(_, _, _)
\* for (const name of paramsNames) url = url.replaceAll(`:${name}`, params[name])
substitute(url, paramsNames, params) ==
  IF paramsNames = <<>> THEN url
  ELSE substitute(replaceAll(url, Pattern(Head(paramsNames)), ToChars(params[Head(paramsNames)])),
                  Tail(paramsNames), params)

\* application/x-www-form-urlencoded of one character
UrlEncode(c) ==
  IF c = " " THEN <<"+">>
  ELSE IF c = "&" THEN <<"%", "2", "6">>
  ELSE IF c = "=" THEN <<"%", "3", "D">>
  ELSE IF c = "/" THEN <<"%", "2", "F">>
  ELSE IF c = ":" THEN <<"%", "3", "A">>
  ELSE <<c>>

RECURSIVE UrlEncodeAll(_)
UrlEncodeAll(s) == IF s = <<>> THEN <<>> ELSE UrlEncode(Head(s)) \o UrlEncodeAll(Tail(s))

RECURSIVE SearchParams(_, _)
\* new URLSearchParams(query).toString(): name=value pairs joined by "&"
SearchParams(names, query) ==
  IF names = <<>> THEN <<>>
  ELSE UrlEncodeAll(Spell[Head(names)]) \o <<"=">> \o UrlEncodeAll(ToChars(query[Head(names)]))
       \o (IF Len(names) > 1 THEN <<"&">> ELSE <<>>)
       \o SearchParams(Tail(names), query)

buildUrl(url, params, query) ==
  substitute(url, SortByLength(Keys(params)), params)
  \o <<"?">> \o SearchParams(Keys(query), query)

NoBuild ==
  [base |-> <<>>, path |-> <<>>, params |-> EmptyObj, query |-> EmptyObj,
   joined |-> FALSE, url |-> <<>>, done |-> FALSE, out |-> <<>>]

----------------------------------------------------------------------------
(* The inputs of the declarations.                                         *)

BaseUrl == <<"h", "t", "t", "p", ":", "/", "/", "h">>

Paths == { <<"/", "u", "/", ":", "i", "d">> }

Methods == {"GET", "POST", "PUT", "DELETE"}

\* the factory Spec declares its endpoint with: a method whose Request may
\* carry a body
SpecMethods == {"POST"}

Handlers == {"h1", "h2"}

\* SpecTree installs one handler: there, only whether mock was called matters
TreeHandlers == {"h1"}

\* a group's shared declaration: a required header and a shared error status
GroupCfg ==
  Config(NoSchema, Schema([token |-> "string"]), NoSchema, NoSchema,
         Responses(500 :> Entry(NoSchema, NoSchema)))

\* an endpoint with a validator in every slot, a validated status and a bare one
FullCfg ==
  Config(Schema([id |-> "number"]), Schema([token |-> "string"]),
         Schema([page |-> "number"]), Schema([email |-> "string"]),
         Responses((200 :> Entry(Schema([ct |-> "string"]), Schema([id |-> "number"])))
                   @@ (404 :> Entry(NoSchema, NoSchema))))

TreeConfigs == {NoConfig, Given(EmptyConfig), Given(GroupCfg)}

DeclConfigs == {NoConfig, Given(EmptyConfig), Given(FullCfg)}

----------------------------------------------------------------------------
(* endpoint.ts: createEndpoint, mock, unmock; createGroup; client.ts       *)

ClientNode == [kind |-> "client", id |-> 0]

GroupNode(g) == [kind |-> "group", id |-> g]

NoNode == [kind |-> "none", id |-> 0]

\* const config = {...defaultConfig, ...options}
ClientConfig == [fetch |-> "fetch"]

\* SpecClient's record before createClient is called: global.fetch as it was
\* when client.ts was loaded, and the options argument
Boot(globalFetch, options) ==
  [globalFetch |-> globalFetch, options |-> options, done |-> FALSE, threw |-> FALSE]

\* createClient(url) returned, global.fetch being a function
Booted == [globalFetch |-> "fetch", options |-> EmptyObj, done |-> TRUE, threw |-> FALSE]

\* config = config || {}; state = {clientConfig, config: {url, method, ...config}}
createEndpoint(clientConfig, method, url, config) ==
  [clientConfig |-> clientConfig,
   config |-> Spread([url |-> url, method |-> method],
                     IF config.given THEN config.cfg ELSE EmptyConfig)]

\* config = config || {}; state = {clientConfig, config: {url, ...config}, groups: [], endpoints: []}
createGroup(clientConfig, url, config) ==
  [clientConfig |-> clientConfig,
   config |-> Spread([url |-> url],
                     IF config.given THEN config.cfg ELSE EmptyConfig),
   groups |-> <<>>,
   endpoints |-> <<>>]

closureConfig_empty(group) == Given(EmptyConfig)

\* the `config` a group's factories close over (never undefined)
closureConfig(group) ==
  Given(Config(group.config.params, group.config.headers, group.config.query,
               group.config.body, group.config.responses))

mock_installsHandler(state, handler) ==
  [k \in DOMAIN state \cup {"handler"} |-> IF k = "handler" THEN handler ELSE state[k]]

\* function mock(state, _) { return state }
mock(state, handler) == state

unmock_dropsResponses(state) ==
  [state EXCEPT !.config = Spread(@, [responses |-> NoResponses])]

\* function unmock(state) { return state }
unmock(state) == state

\* type MockHandler = (req) => Res | Promise<Res>: h1 resolves with a
\* response, h2 throws
MockHandler(h, req) ==
  IF h = "h1"
  THEN [kind |-> "response", slot |-> "", status |-> 200,
        headers |-> Obj(EmptyObj), body |-> req.body, input |-> Undefined]
  ELSE [kind |-> "HandlerError", slot |-> "", status |-> 0,
        headers |-> Undefined, body |-> Undefined, input |-> Undefined]

dispatch_transportAndHandler(state) == [kind |-> "both", fn |-> state.clientConfig.fetch]

\* handle hands the request to state.clientConfig.fetch, whatever was mocked
dispatch(state) == [kind |-> "transport", fn |-> state.clientConfig.fetch]

NoBcast ==
  [on |-> NoNode, visits |-> <<>>, before |-> <<>>, mixed |-> FALSE, again |-> FALSE]

NodeCount == Len(groups) + Len(endpoints)

Untouched == UNCHANGED <<calls, mA, mB, mOut, mC, mAlt, chain, build, boot, trio>>

----------------------------------------------------------------------------
(* Declarations on the client (client.ts) *)

ClientGroup(path, groupConfig) ==
  /\ NodeCount < MaxNodes
  /\ LET group == createGroup(client.config, appendPath(client.url, path), groupConfig)
     IN /\ groups' = Append(groups, group)
        /\ client' = [client EXCEPT !.groups = Append(@, Len(groups) + 1)]
  /\ parent' = [parent EXCEPT !.groups = Append(@, ClientNode)]
  /\ bcast' = NoBcast
  /\ UNCHANGED <<endpoints, lastOp, created>>
  /\ Untouched

ClientEndpoint(method, path, endpointConfig) ==
  /\ NodeCount < MaxNodes
  /\ LET endpoint == createEndpoint(client.config, method,
                                    appendPath(client.url, path), endpointConfig)
     IN /\ endpoints' = Append(endpoints, endpoint)
        /\ client' = [client EXCEPT !.endpoints = Append(@, Len(endpoints) + 1)]
        /\ created' = Append(created, endpoint)
  /\ lastOp' = Append(lastOp, "none")
  /\ parent' = [parent EXCEPT !.endpoints = Append(@, ClientNode)]
  /\ bcast' = NoBcast
  /\ UNCHANGED groups
  /\ Untouched

ClientGet(path, endpointConfig) == ClientEndpoint("GET", path, endpointConfig)

ClientPost(path, endpointConfig) == ClientEndpoint("POST", path, endpointConfig)

ClientPut(path, endpointConfig) == ClientEndpoint("PUT", path, endpointConfig)

ClientDelete(path, endpointConfig) == ClientEndpoint("DELETE", path, endpointConfig)

----------------------------------------------------------------------------
(* Declarations on a group (createGroup) *)

GroupGroup(g, path, groupConfig) ==
  /\ NodeCount < MaxNodes
  /\ g \in 1..Len(groups)
  /\ LET state == groups[g]
         group == createGroup(state.clientConfig, appendPath(state.config.url, path),
                              mergeConfigs(closureConfig(state), groupConfig))
     IN groups' = Append([groups EXCEPT ![g].groups = Append(@, Len(groups) + 1)], group)
  /\ parent' = [parent EXCEPT !.groups = Append(@, GroupNode(g))]
  /\ bcast' = NoBcast
  /\ UNCHANGED <<client, endpoints, lastOp, created>>
  /\ Untouched

GroupEndpoint_mergesIntoGroup(g, method, path, endpointConfig) ==
  /\ NodeCount < MaxNodes
  /\ g \in 1..Len(groups)
  /\ LET state == groups[g]
         merged == mergeConfigs(closureConfig(state), endpointConfig)
         endpoint == createEndpoint(state.clientConfig, method,
                                    appendPath(state.config.url, path), merged)
     IN /\ endpoints' = Append(endpoints, endpoint)
        /\ groups' = [groups EXCEPT ![g].endpoints = Append(@, Len(endpoints) + 1),
                                    ![g].config = Spread(@, merged)]
        /\ created' = Append(created, endpoint)
  /\ lastOp' = Append(lastOp, "none")
  /\ parent' = [parent EXCEPT !.endpoints = Append(@, GroupNode(g))]
  /\ bcast' = NoBcast
  /\ UNCHANGED client
  /\ Untouched

GroupEndpoint(g, method, path, endpointConfig) ==
  /\ NodeCount < MaxNodes
  /\ g \in 1..Len(groups)
  /\ LET state == groups[g]
         endpoint == createEndpoint(state.clientConfig, method,
                                    appendPath(state.config.url, path),
                                    mergeConfigs(closureConfig(state), endpointConfig))
     IN /\ endpoints' = Append(endpoints, endpoint)
        /\ groups' = [groups EXCEPT ![g].endpoints = Append(@, Len(endpoints) + 1)]
        /\ created' = Append(created, endpoint)
  /\ lastOp' = Append(lastOp, "none")
  /\ parent' = [parent EXCEPT !.endpoints = Append(@, GroupNode(g))]
  /\ bcast' = NoBcast
  /\ UNCHANGED client
  /\ Untouched

GroupGet(g, path, endpointConfig) == GroupEndpoint(g, "GET", path, endpointConfig)

GroupPost(g, path, endpointConfig) == GroupEndpoint(g, "POST", path, endpointConfig)

GroupPut(g, path, endpointConfig) == GroupEndpoint(g, "PUT", path, endpointConfig)

GroupDelete(g, path, endpointConfig) == GroupEndpoint(g, "DELETE", path, endpointConfig)

----------------------------------------------------------------------------
(* mock and unmock *)

\* endpoint.mock = (handler) => { state = mock(state, handler) }
EndpointMock(e, handler) ==
  /\ e \in 1..Len(endpoints)
  /\ endpoints' = [endpoints EXCEPT ![e] = mock(@, handler)]
  /\ lastOp' = [lastOp EXCEPT ![e] = handler]
  /\ bcast' = NoBcast
  /\ UNCHANGED <<client, groups, parent, created>>
  /\ Untouched

\* endpoint.unmock = () => { state = unmock(state) }
EndpointUnmock(e) ==
  /\ e \in 1..Len(endpoints)
  /\ endpoints' = [endpoints EXCEPT ![e] = unmock(@)]
  /\ lastOp' = [lastOp EXCEPT ![e] = "unmock"]
  /\ bcast' = NoBcast
  /\ UNCHANGED <<client, groups, parent, created>>
  /\ Untouched

unmockCalls_noRecursion(gs, es) == es

unmockCalls_everyEndpoint(gs, es) == [e \in 1..Len(endpoints) |-> e]

RECURSIVE unmockCalls(_, _)
\* the endpoints whose unmock() is called, in call order, by
\*   for (const group of state.groups) group.unmock()
\*   for (const endpoint of state.endpoints) endpoint.unmock()
unmockCalls(gs, es) ==
  IF gs = <<>> THEN es
  ELSE unmockCalls(groups[Head(gs)].groups, groups[Head(gs)].endpoints)
       \o unmockCalls(Tail(gs), es)

RECURSIVE applyUnmock(_, _)
\* the closures after those calls
applyUnmock(eps, visits) ==
  IF visits = <<>> THEN eps
  ELSE applyUnmock([eps EXCEPT ![Head(visits)] = unmock(@)], Tail(visits))

Broadcast(node, visits) ==
  /\ endpoints' = applyUnmock(endpoints, visits)
  /\ lastOp' = [e \in 1..Len(lastOp) |->
                  IF \E i \in 1..Len(visits) : visits[i] = e THEN "unmock" ELSE lastOp[e]]
  /\ bcast' = [on |-> node, visits |-> visits, before |-> endpoints,
               mixed |-> IF bcast.on = node THEN bcast.mixed
                         ELSE /\ \E i \in 1..Len(visits) : lastOp[visits[i]] \in Handlers
                              /\ \E i \in 1..Len(visits) : lastOp[visits[i]] \notin Handlers,
               again |-> (bcast.on = node)]
  /\ UNCHANGED <<client, groups, parent, created>>
  /\ Untouched

ClientUnmock == Broadcast(ClientNode, unmockCalls(client.groups, client.endpoints))

GroupUnmock(g) ==
  /\ g \in 1..Len(groups)
  /\ Broadcast(GroupNode(g), unmockCalls(groups[g].groups, groups[g].endpoints))

----------------------------------------------------------------------------
(* SpecTree: declarations, mock and unmock on one client *)

\* createClient(url, options): no groups, no endpoints
InitClient ==
  /\ client = [url |-> BaseUrl, config |-> ClientConfig, groups |-> <<>>, endpoints |-> <<>>]
  /\ groups = <<>>
  /\ endpoints = <<>>
  /\ lastOp = <<>>
  /\ parent = [groups |-> <<>>, endpoints |-> <<>>]
  /\ created = <<>>
  /\ bcast = NoBcast

NoMerge == [done |-> FALSE, out |-> NoConfig]

NoTrio == [drawn |-> FALSE]

NoInputs ==
  /\ mA = NoConfig /\ mB = NoConfig /\ mOut = NoMerge
  /\ mC = NoConfig /\ mAlt = NoMerge
  /\ trio = NoTrio
  /\ chain = <<>>
  /\ build = NoBuild
  /\ boot = Booted

Idle == calls = <<>> /\ NoInputs

InitTree == InitClient /\ Idle

NextTree ==
  \/ \E p \in Paths, c \in TreeConfigs : ClientGroup(p, c)
  \/ \E p \in Paths, c \in TreeConfigs : ClientGet(p, c)
  \/ \E p \in Paths, c \in TreeConfigs : ClientPost(p, c)
  \/ \E p \in Paths, c \in TreeConfigs : ClientPut(p, c)
  \/ \E p \in Paths, c \in TreeConfigs : ClientDelete(p, c)
  \/ \E g \in 1..Len(groups), p \in Paths, c \in TreeConfigs : GroupGroup(g, p, c)
  \/ \E g \in 1..Len(groups), p \in Paths, c \in TreeConfigs : GroupGet(g, p, c)
  \/ \E g \in 1..Len(groups), p \in Paths, c \in TreeConfigs : GroupPost(g, p, c)
  \/ \E g \in 1..Len(groups), p \in Paths, c \in TreeConfigs : GroupPut(g, p, c)
  \/ \E g \in 1..Len(groups), p \in Paths, c \in TreeConfigs : GroupDelete(g, p, c)
  \/ \E e \in 1..Len(endpoints), h \in TreeHandlers : EndpointMock(e, h)
  \/ \E e \in 1..Len(endpoints) : EndpointUnmock(e)
  \/ \E g \in 1..Len(groups) : GroupUnmock(g)
  \/ ClientUnmock

SpecTree == InitTree /\ [][NextTree]_vars

----------------------------------------------------------------------------
(* endpoint.ts: the invocation pipeline *)

Request(p, q, h, b) == [params |-> p, query |-> q, headers |-> h, body |-> b]

NoRequest == Request(Undefined, Undefined, Undefined, Undefined)

\* What an invocation ends with: a BaseResponse, or the value thrown.
Outcome(kind, slot, status, headers, body, input) ==
  [kind |-> kind, slot |-> slot, status |-> status, headers |-> headers,
   body |-> body, input |-> input]

Pending == Outcome("pending", "", 0, Undefined, Undefined, Undefined)

Response(status, headers, body) ==
  Outcome("response", "", status, headers, body, Undefined)

\* the ZodError of the validator of `slot` on `input`
ZodError(slot, input) == Outcome("ZodError", slot, 0, Undefined, Undefined, input)

\* throw `Received response with unknown status '${res.status}'!`
UnknownStatus(status) ==
  Outcome("UnknownStatus", "", status, Undefined, Undefined, Undefined)

\* what state.clientConfig.fetch rejects with
TransportError == Outcome("TransportError", "", 0, Undefined, Undefined, Undefined)

\* what response.json() rejects with
JsonError == Outcome("JsonError", "", 0, Undefined, Undefined, Undefined)

\* schemas.x ? schemas.x.parse(req.x) : req.x
parseSlot(schema, x) == IF schema.def THEN Parse(schema, x) ELSE [ok |-> TRUE, val |-> x]

\* the fields of `slots` that have a validator, in order: the parse calls made
validatorsRun(schemas, slots) == SelectSeq(slots, LAMBDA s : schemas[s].def)

validateRequest_skipsBody(state, req) ==
  LET schemas == state.config
      p == parseSlot(schemas.params, req.params)
      q == parseSlot(schemas.query, req.query)
      h == parseSlot(schemas.headers, req.headers)
  IN IF ~p.ok THEN [ok |-> FALSE, req |-> NoRequest, err |-> ZodError("params", req.params),
           ran |-> validatorsRun(schemas, <<"params">>)]
     ELSE IF ~q.ok THEN [ok |-> FALSE, req |-> NoRequest, err |-> ZodError("query", req.query),
           ran |-> validatorsRun(schemas, <<"params", "query">>)]
     ELSE IF ~h.ok THEN [ok |-> FALSE, req |-> NoRequest, err |-> ZodError("headers", req.headers),
           ran |-> validatorsRun(schemas, <<"params", "query", "headers">>)]
     ELSE [ok |-> TRUE, req |-> Request(p.val, q.val, h.val, req.body), err |-> Pending,
           ran |-> validatorsRun(schemas, <<"params", "query", "headers">>)]

validateRequest_rawOutputs(state, req) ==
  LET schemas == state.config
      p == parseSlot(schemas.params, req.params)
      q == parseSlot(schemas.query, req.query)
      h == parseSlot(schemas.headers, req.headers)
      b == parseSlot(schemas.body, req.body)
  IN IF ~p.ok THEN [ok |-> FALSE, req |-> NoRequest, err |-> ZodError("params", req.params),
           ran |-> validatorsRun(schemas, <<"params">>)]
     ELSE IF ~q.ok THEN [ok |-> FALSE, req |-> NoRequest, err |-> ZodError("query", req.query),
           ran |-> validatorsRun(schemas, <<"params", "query">>)]
     ELSE IF ~h.ok THEN [ok |-> FALSE, req |-> NoRequest, err |-> ZodError("headers", req.headers),
           ran |-> validatorsRun(schemas, <<"params", "query", "headers">>)]
     ELSE IF ~b.ok THEN [ok |-> FALSE, req |-> NoRequest, err |-> ZodError("body", req.body),
           ran |-> validatorsRun(schemas, <<"params", "query", "headers", "body">>)]
     ELSE [ok |-> TRUE, req |-> req, err |-> Pending,
           ran |-> validatorsRun(schemas, <<"params", "query", "headers", "body">>)]

validateRequest_bodyFirst(state, req) ==
  LET schemas == state.config
      p == parseSlot(schemas.params, req.params)
      q == parseSlot(schemas.query, req.query)
      h == parseSlot(schemas.headers, req.headers)
      b == parseSlot(schemas.body, req.body)
  IN IF ~b.ok THEN [ok |-> FALSE, req |-> NoRequest, err |-> ZodError("body", req.body),
           ran |-> validatorsRun(schemas, <<"body">>)]
     ELSE IF ~p.ok THEN [ok |-> FALSE, req |-> NoRequest, err |-> ZodError("params", req.params),
           ran |-> validatorsRun(schemas, <<"body", "params">>)]
     ELSE IF ~q.ok THEN [ok |-> FALSE, req |-> NoRequest, err |-> ZodError("query", req.query),
           ran |-> validatorsRun(schemas, <<"body", "params", "query">>)]
     ELSE IF ~h.ok THEN [ok |-> FALSE, req |-> NoRequest, err |-> ZodError("headers", req.headers),
           ran |-> validatorsRun(schemas, <<"body", "params", "query", "headers">>)]
     ELSE [ok |-> TRUE, req |-> Request(p.val, q.val, h.val, b.val), err |-> Pending,
           ran |-> validatorsRun(schemas, <<"body", "params", "query", "headers">>)]

\* The object literal is evaluated in the order params, query, headers, body:
\* the first parse that throws ends it.
validateRequest(state, req) ==
  LET schemas == state.config
      p == parseSlot(schemas.params, req.params)
      q == parseSlot(schemas.query, req.query)
      h == parseSlot(schemas.headers, req.headers)
      b == parseSlot(schemas.body, req.body)
  IN IF ~p.ok THEN [ok |-> FALSE, req |-> NoRequest, err |-> ZodError("params", req.params),
           ran |-> validatorsRun(schemas, <<"params">>)]
     ELSE IF ~q.ok THEN [ok |-> FALSE, req |-> NoRequest, err |-> ZodError("query", req.query),
           ran |-> validatorsRun(schemas, <<"params", "query">>)]
     ELSE IF ~h.ok THEN [ok |-> FALSE, req |-> NoRequest, err |-> ZodError("headers", req.headers),
           ran |-> validatorsRun(schemas, <<"params", "query", "headers">>)]
     ELSE IF ~b.ok THEN [ok |-> FALSE, req |-> NoRequest, err |-> ZodError("body", req.body),
           ran |-> validatorsRun(schemas, <<"params", "query", "headers", "body">>)]
     ELSE [ok |-> TRUE, req |-> Request(p.val, q.val, h.val, b.val), err |-> Pending,
           ran |-> validatorsRun(schemas, <<"params", "query", "headers", "body">>)]

\* status, the header entries copied into an object, the parsed JSON body
createResponse(response) == Response(response.status, response.headers, response.body)

validateResponse_noStatusCheck(state, res) ==
  LET schemas == state.config.responses IN
  IF schemas.def /\ res.status \in DOMAIN schemas.map
  THEN LET schema == schemas.map[res.status]
           h == parseSlot(schema.headers, res.headers)
           b == parseSlot(schema.body, res.body)
       IN IF ~h.ok THEN ZodError("response.headers", res.headers)
          ELSE IF ~b.ok THEN ZodError("response.body", res.body)
          ELSE Response(res.status, h.val, b.val)
  ELSE res

validateResponse_parsedDropped(state, res) ==
  LET schemas == state.config.responses IN
  IF schemas.def
  THEN IF res.status \notin DOMAIN schemas.map
       THEN UnknownStatus(res.status)
       ELSE LET schema == schemas.map[res.status]
                h == parseSlot(schema.headers, res.headers)
                b == parseSlot(schema.body, res.body)
            IN IF ~h.ok THEN ZodError("response.headers", res.headers)
               ELSE IF ~b.ok THEN ZodError("response.body", res.body)
               ELSE res
  ELSE res

validateResponse(state, res) ==
  LET schemas == state.config.responses IN
  IF schemas.def
  THEN IF res.status \notin DOMAIN schemas.map
       THEN UnknownStatus(res.status)
       ELSE LET schema == schemas.map[res.status]
                h == parseSlot(schema.headers, res.headers)
                b == parseSlot(schema.body, res.body)
            IN IF ~h.ok THEN ZodError("response.headers", res.headers)
               ELSE IF ~b.ok THEN ZodError("response.body", res.body)
               ELSE Response(res.status, h.val, b.val)
  ELSE res

Quote == "\""

\* JSON.stringify of a string
JsonString(chars) == <<Quote>> \o chars \o <<Quote>>

\* JSON.stringify of a leaf: a number by its digits, a string quoted
JsonLeaf(v) == IF TypeOf(v) = "number" THEN ToChars(v) ELSE JsonString(ToChars(v))

RECURSIVE JsonMembers(_, _)
JsonMembers(names, o) ==
  IF names = <<>> THEN <<>>
  ELSE JsonString(Spell[Head(names)]) \o <<":">> \o JsonLeaf(o[Head(names)])
       \o (IF Len(names) > 1 THEN <<",">> ELSE <<>>)
       \o JsonMembers(Tail(names), o)

\* JSON.stringify(x), x an object or a string
stringify(x) ==
  IF IsObject(x) THEN <<"{">> \o JsonMembers(Keys(x.obj), x.obj) \o <<"}">>
  ELSE JsonString(x.str)

\* the body of a Request: none, or its text
NoBody == [def |-> FALSE, text |-> <<>>]

Body(text) == [def |-> TRUE, text |-> text]

\* body: req.body && JSON.stringify(req.body).  A falsy req.body is itself
\* the `body` of the init: undefined gives no body, a string is the body text.
bodyInit(body) ==
  IF Truthy(body) THEN Body(stringify(body))
  ELSE IF body.def THEN Body(body.str)
  ELSE NoBody

FixedHeaders ==
  ("Accept" :> "application/json") @@ ("Content-Type" :> "application/json")

\* x || {}
OrEmpty(x) == IF Truthy(x) THEN x.obj ELSE EmptyObj

\* new Request(url, init), taken to accept what it is given (it does not when
\* a GET is given a body)
FetchRequest(url, method, headers, body) ==
  [url |-> url, method |-> method, headers |-> headers, body |-> body]

NoFetchRequest == FetchRequest(<<>>, "", EmptyObj, NoBody)

createFetchRequest(state, req) ==
  FetchRequest(buildUrl(state.config.url, OrEmpty(req.params), OrEmpty(req.query)),
               state.config.method,
               Spread(OrEmpty(req.headers), FixedHeaders),
               bodyInit(req.body))

NoTarget == [kind |-> "none", fn |-> ""]

NoTransportResponse ==
  [status |-> 0, headers |-> Undefined, body |-> Undefined, json |-> FALSE]

OtherCalls ==
  UNCHANGED <<client, groups, lastOp, parent, created, bcast,
              mA, mB, mOut, mC, mAlt, chain, build, boot, trio>>

\* endpoint(req), to the first await of handle: validateRequest, then
\* createFetchRequest and the call of state.clientConfig.fetch.  A throw of
\* validateRequest rejects handle's promise before fetch is called.
Invoke(e, req) ==
  /\ Len(calls) < MaxCalls
  /\ e \in 1..Len(endpoints)
  /\ LET state == endpoints[e]
         v == validateRequest(state, req)
         call == [ep |-> e, req |-> req, op |-> lastOp[e], state |-> state,
                  vreq |-> v.req, ran |-> v.ran,
                  sent |-> IF v.ok THEN 1 ELSE 0,
                  freq |-> IF v.ok THEN createFetchRequest(state, v.req)
                           ELSE NoFetchRequest,
                  resp |-> NoTransportResponse,
                  pc |-> IF v.ok THEN "fetch" ELSE "settled",
                  target |-> IF v.ok THEN dispatch(state) ELSE NoTarget,
                  out |-> v.err]
     IN calls' = Append(calls, call)
  /\ UNCHANGED endpoints
  /\ OtherCalls

\* the transport resolves with a Response: createResponse reads its status and
\* headers and awaits response.json()
FetchResolve(i, response) ==
  /\ i \in 1..Len(calls)
  /\ calls[i].pc = "fetch"
  /\ calls[i].target.kind = "transport"
  /\ calls' = [calls EXCEPT ![i].pc = "json", ![i].resp = response]
  /\ UNCHANGED endpoints
  /\ OtherCalls

FetchReject_retries(i) ==
  /\ i \in 1..Len(calls)
  /\ calls[i].pc = "fetch"
  /\ calls[i].target.kind = "transport"
  /\ calls' = IF calls[i].sent < 2
              THEN [calls EXCEPT ![i].sent = @ + 1]
              ELSE [calls EXCEPT ![i].pc = "settled", ![i].out = TransportError]
  /\ UNCHANGED endpoints
  /\ OtherCalls

\* the transport rejects: handle rejects with its error
FetchReject(i) ==
  /\ i \in 1..Len(calls)
  /\ calls[i].pc = "fetch"
  /\ calls[i].target.kind = "transport"
  /\ calls' = [calls EXCEPT ![i].pc = "settled", ![i].out = TransportError]
  /\ UNCHANGED endpoints
  /\ OtherCalls

\* response.json() resolves: return [state, validateResponse(state, res)]
JsonResolve(i) ==
  /\ i \in 1..Len(calls)
  /\ calls[i].pc = "json"
  /\ calls[i].resp.json
  /\ calls' = [calls EXCEPT ![i].pc = "settled",
                            ![i].out = validateResponse(calls[i].state,
                                                        createResponse(calls[i].resp))]
  /\ UNCHANGED endpoints
  /\ OtherCalls

\* response.json() rejects: the body is no JSON
JsonReject(i) ==
  /\ i \in 1..Len(calls)
  /\ calls[i].pc = "json"
  /\ ~calls[i].resp.json
  /\ calls' = [calls EXCEPT ![i].pc = "settled", ![i].out = JsonError]
  /\ UNCHANGED endpoints
  /\ OtherCalls

\* const [newState, res] = await handle(state, req); state = newState; return res
\* (a rejection of handle leaves `state` as it is)
Complete(i) ==
  /\ i \in 1..Len(calls)
  /\ calls[i].pc = "settled"
  /\ calls' = [calls EXCEPT ![i].pc = "done"]
  /\ endpoints' = IF calls[i].out.kind = "response"
                  THEN [endpoints EXCEPT ![calls[i].ep] = calls[i].state]
                  ELSE endpoints
  /\ OtherCalls

----------------------------------------------------------------------------
(* Spec: one endpoint, declared on the client or on a group of it, then    *)
(* mock, unmock and invoke on it.                                          *)

\* valid for FullCfg, with a key in every field that FullCfg's validators strip
GoodRequest ==
  Request(Obj([id |-> "1", junk |-> "x"]), Obj([page |-> "2", junk |-> "x"]),
          Obj([token |-> "t", Accept |-> "x"]), Obj([email |-> "m", junk |-> "x"]))

\* the body is the empty string: only the body is invalid for FullCfg
BadBodyRequest ==
  Request(Obj([id |-> "1"]), Obj([page |-> "2"]), Obj([token |-> "t"]), Str(<<>>))

\* no headers and no body: params, headers and body are invalid for FullCfg
BadParamsHeadersRequest ==
  Request(Obj([id |-> "x"]), Obj([page |-> "2"]), Undefined, Undefined)

Requests == {GoodRequest, BadBodyRequest, BadParamsHeadersRequest}

GoodHeaders == Obj([ct |-> "j", server |-> "s"])

GoodBody == Obj([id |-> "1", name |-> "n"])

TransportResponse(status, headers, body, json) ==
  [status |-> status, headers |-> headers, body |-> body, json |-> json]

\* for FullCfg: 200 is validated, 404 is declared bare, 500 is not declared
TransportResponses ==
  {TransportResponse(s, GoodHeaders, GoodBody, TRUE) : s \in {200, 404, 500}}
  \cup {TransportResponse(200, Obj(EmptyObj), GoodBody, TRUE),
        TransportResponse(200, GoodHeaders, Obj([id |-> "n"]), TRUE),
        TransportResponse(200, GoodHeaders, Undefined, FALSE)}

\* client.METHOD(path, config)
DeclaredOnClient(method, path, endpointConfig) ==
  /\ client = [url |-> BaseUrl, config |-> ClientConfig,
               groups |-> <<>>, endpoints |-> <<1>>]
  /\ groups = <<>>
  /\ endpoints = << createEndpoint(ClientConfig, method, appendPath(BaseUrl, path),
                                   endpointConfig) >>
  /\ parent = [groups |-> <<>>, endpoints |-> <<ClientNode>>]

\* client.group(path, groupConfig).METHOD(path, config)
DeclaredOnGroup(method, path, groupConfig, endpointConfig) ==
  LET group == createGroup(ClientConfig, appendPath(BaseUrl, path), groupConfig) IN
  /\ client = [url |-> BaseUrl, config |-> ClientConfig,
               groups |-> <<1>>, endpoints |-> <<>>]
  /\ groups = << [group EXCEPT !.endpoints = <<1>>] >>
  /\ endpoints = << createEndpoint(group.clientConfig, method,
                                   appendPath(group.config.url, path),
                                   mergeConfigs(closureConfig(group), endpointConfig)) >>
  /\ parent = [groups |-> <<ClientNode>>, endpoints |-> <<GroupNode(1)>>]

Init ==
  /\ \E m \in SpecMethods, p \in Paths, c \in DeclConfigs :
       \/ DeclaredOnClient(m, p, c)
       \/ \E g \in DeclConfigs : DeclaredOnGroup(m, p, g, c)
  /\ lastOp = <<"none">>
  /\ created = endpoints
  /\ bcast = NoBcast
  /\ Idle

Next ==
  \/ \E e \in 1..Len(endpoints), h \in Handlers : EndpointMock(e, h)
  \/ \E e \in 1..Len(endpoints) : EndpointUnmock(e)
  \/ \E e \in 1..Len(endpoints), r \in Requests : Invoke(e, r)
  \/ \E i \in 1..Len(calls), r \in TransportResponses : FetchResolve(i, r)
  \/ \E i \in 1..Len(calls) : FetchReject(i)
  \/ \E i \in 1..Len(calls) : JsonResolve(i)
  \/ \E i \in 1..Len(calls) : JsonReject(i)
  \/ \E i \in 1..Len(calls) : Complete(i)

Spec == Init /\ [][Next]_vars

----------------------------------------------------------------------------
(* Claims on Spec.  A call is judged against the config its endpoint was   *)
(* created with, and against the last mock-state call made before it.      *)

Calls == 1..Len(calls)

Slots == {"params", "query", "headers", "body"}

DeclaredConfig(c) == created[c.ep].config

\* the fields of the call's request that fail their configured validator
FailingSlots(c) ==
  {s \in Slots : DeclaredConfig(c)[s].def /\ ~Parse(DeclaredConfig(c)[s], c.req[s]).ok}

\* handle has settled for this call
Settled(c) == c.pc \in {"settled", "done"}

\* the transport's response arrived and its body was parsed
Answered(c) == Settled(c) /\ c.target.kind = "transport" /\ c.resp.json

\* the keys of the declared responses map, an absent map having none
DeclaredStatuses(c) ==
  IF DeclaredConfig(c).responses.def THEN DOMAIN DeclaredConfig(c).responses.map ELSE {}

\* C1: an invoke made when the last mock-state call was mock(h), with a
\* request that passes validation, does not call the transport and returns
\* h's result on the validated request, not validated as a response.
C1_MockedInvokeReturnsHandlerResult ==
  \A i \in Calls :
    LET c == calls[i] IN
    (c.op \in Handlers /\ FailingSlots(c) = {}) =>
      /\ c.target.kind # "transport"
      /\ c.pc = "done" => c.out = MockHandler(c.op, c.vreq)

\* C2: an endpoint whose last mock-state call is unmock() is as it was
\* created; an invoke made then, with a request that passes validation, is
\* dispatched to the transport, and what it settles with is response
\* validation, under the declared config, of the transport's response.
C2_UnmockedInvokeIsLive ==
  /\ \A e \in 1..Len(endpoints) : lastOp[e] = "unmock" => endpoints[e] = created[e]
  /\ \A i \in Calls :
       LET c == calls[i] IN
       (c.op = "unmock" /\ FailingSlots(c) = {}) =>
         /\ c.target.kind = "transport"
         /\ Answered(c) => c.out = validateResponse(created[c.ep], createResponse(c.resp))

\* unmock() was called, then an invoke returned a response whose headers the
\* status's validator had transformed
C2_Witness ==
  \E i \in Calls :
    /\ calls[i].op = "unmock"
    /\ calls[i].pc = "done"
    /\ calls[i].out.kind = "response"
    /\ calls[i].out.headers # calls[i].resp.headers

\* C4: an invoke whose request has a field that fails its validator calls
\* neither the transport nor a handler, and fails with the error of the
\* validator of a failing field.
C4_InvalidRequestNoDispatch ==
  \A i \in Calls :
    LET c == calls[i] IN
    FailingSlots(c) # {} =>
      /\ c.target = NoTarget
      /\ Settled(c)
      /\ c.out.kind = "ZodError"
      /\ c.out.slot \in FailingSlots(c)
      /\ c.out.input = c.req[c.out.slot]

\* mock(h) was called last, then an invoke with an invalid body failed
C4_Witness ==
  \E i \in Calls :
    /\ calls[i].op \in Handlers
    /\ FailingSlots(calls[i]) = {"body"}
    /\ calls[i].pc = "done"

\* C5: when the declared responses map has entries and the transport answers
\* with a status that is none of its keys, the invoke fails with the
\* unknown-status error, which is no validator's error; so a response that
\* such an invoke returns has a status of the map.
C5_UnknownStatusFails ==
  \A i \in Calls :
    LET c == calls[i] IN
    (Answered(c) /\ DeclaredStatuses(c) # {}) =>
      /\ c.resp.status \notin DeclaredStatuses(c) =>
           c.out = UnknownStatus(c.resp.status) /\ c.out.kind # "ZodError"
      /\ c.out.kind = "response" => c.out.status \in DeclaredStatuses(c)

\* a Live endpoint declaring 200 and 404 received a 500
C5_Witness ==
  \E i \in Calls :
    /\ calls[i].op \notin Handlers
    /\ calls[i].pc = "done"
    /\ DeclaredStatuses(calls[i]) # {}
    /\ calls[i].resp.status \notin DeclaredStatuses(calls[i])
    /\ calls[i].out.kind = "UnknownStatus"

\* C6: when the declared responses map has no entry (absent or empty), the
\* invoke returns the transport's response as it came, whatever its status.
C6_NoResponsesPassThrough ==
  \A i \in Calls :
    LET c == calls[i] IN
    (Answered(c) /\ DeclaredStatuses(c) = {}) => c.out = createResponse(c.resp)

\* C7: when the transport's status s is a key of the declared responses map,
\* the invoke returns status s with the outputs of entry s's validators (the
\* raw headers or body where the entry has none), or fails when one of them
\* fails.
C7_KnownStatusValidated ==
  \A i \in Calls :
    LET c == calls[i] IN
    (Answered(c) /\ c.resp.status \in DeclaredStatuses(c)) =>
      LET entry == DeclaredConfig(c).responses.map[c.resp.status]
          h == Parse(entry.headers, c.resp.headers)
          b == Parse(entry.body, c.resp.body)
          hFails == entry.headers.def /\ ~h.ok
          bFails == entry.body.def /\ ~b.ok
      IN IF hFails \/ bFails
         THEN c.out.kind = "ZodError"
         ELSE /\ c.out.kind = "response"
              /\ c.out.status = c.resp.status
              /\ c.out.headers = (IF entry.headers.def THEN h.val ELSE c.resp.headers)
              /\ c.out.body = (IF entry.body.def THEN b.val ELSE c.resp.body)

\* a 200 came back whose headers and body the validators of 200 transformed
C7_Witness ==
  \E i \in Calls :
    /\ calls[i].pc = "done"
    /\ calls[i].out.kind = "response"
    /\ calls[i].resp.status \in DeclaredStatuses(calls[i])
    /\ calls[i].out.headers # calls[i].resp.headers
    /\ calls[i].out.body # calls[i].resp.body

\* the output of the slot's declared validator on the call's input, or the
\* input itself when the slot has no validator
Validated(c, slot) ==
  IF DeclaredConfig(c)[slot].def
  THEN Parse(DeclaredConfig(c)[slot], c.req[slot]).val
  ELSE c.req[slot]

\* C17: an invoke whose request passes validation is dispatched, and when the
\* transport is called the Request handed to it has the URL built from the
\* validators' outputs for params and query, the validator's output for
\* headers under every name but the fixed ones, and the body made of the
\* validator's output for body; a field with no validator counts with its
\* input.
C17_RequestFromParsed ==
  \A i \in Calls :
    LET c == calls[i] IN
    /\ FailingSlots(c) = {} => c.target # NoTarget
    /\ c.pc = "fetch" =>
         /\ c.freq.url = buildUrl(DeclaredConfig(c).url, OrEmpty(Validated(c, "params")),
                                  OrEmpty(Validated(c, "query")))
         /\ DOMAIN c.freq.headers =
              (DOMAIN OrEmpty(Validated(c, "headers"))) \cup (DOMAIN FixedHeaders)
         /\ \A k \in (DOMAIN c.freq.headers) \ (DOMAIN FixedHeaders) :
              c.freq.headers[k] = Validated(c, "headers").obj[k]
         /\ c.freq.body = bodyInit(Validated(c, "body"))

\* the transport is called for an invoke whose validators changed every field
\* of the request
C17_Witness ==
  \E i \in Calls :
    /\ calls[i].pc = "fetch"
    /\ calls[i].target.kind = "transport"
    /\ FailingSlots(calls[i]) = {}
    /\ \A slot \in Slots :
         /\ DeclaredConfig(calls[i])[slot].def
         /\ Validated(calls[i], slot) # calls[i].req[slot]

\* C18: for an invoke on an endpoint with no handler installed, whose request
\* passes validation, the Request handed to the transport has the method of
\* the declaring factory, the validated headers with Accept and Content-Type
\* set to application/json over them, and for body the JSON text of the
\* validated body when there is one, none otherwise.
C18_TransportRequest ==
  \A i \in Calls :
    LET c == calls[i] IN
    (c.op \notin Handlers /\ FailingSlots(c) = {}) =>
      /\ c.freq.method = DeclaredConfig(c).method
      /\ c.freq.method \in Methods
      /\ c.freq.headers = Spread(OrEmpty(Validated(c, "headers")), FixedHeaders)
      /\ c.freq.body = (IF Validated(c, "body").def
                        THEN Body(stringify(Validated(c, "body")))
                        ELSE NoBody)

\* the transport rejected the call
Rejected(c) == Settled(c) /\ c.target.kind = "transport" /\ c.resp = NoTransportResponse

\* C19: an invoke that the transport rejects fails with the transport's error;
\* an invoke made when the last mock-state call installed a handler that
\* throws fails with the handler's error.
C19_ErrorsPropagate ==
  \A i \in Calls :
    LET c == calls[i] IN
    /\ (c.op \notin Handlers /\ Rejected(c)) => c.out = TransportError
    /\ (c.op \in Handlers /\ FailingSlots(c) = {} /\ Settled(c)
          /\ MockHandler(c.op, c.vreq).kind = "HandlerError") =>
         c.out = MockHandler(c.op, c.vreq)

\* the order in which validateRequest's object literal names the fields
SlotOrder == <<"params", "query", "headers", "body">>

\* the position in SlotOrder of the first field of the call's request that
\* fails its validator
FirstFailing(c) ==
  CHOOSE k \in 1..Len(SlotOrder) :
    /\ SlotOrder[k] \in FailingSlots(c)
    /\ \A j \in 1..(k - 1) : SlotOrder[j] \notin FailingSlots(c)

\* the fields among the first k of SlotOrder that the declared config validates
ConfiguredUpTo(c, k) ==
  SelectSeq(SubSeq(SlotOrder, 1, k), LAMBDA s : DeclaredConfig(c)[s].def)

\* C22: request validation runs the configured validators in the order
\* params, query, headers, body and stops at the first failure: an invoke
\* whose request has invalid fields fails with the error of the first invalid
\* field in that order, having run the validators up to that field and none
\* after it; an invoke whose request is valid has run them all, in that order.
C22_ValidationOrder ==
  \A i \in Calls :
    LET c == calls[i] IN
    IF FailingSlots(c) = {}
    THEN c.ran = ConfiguredUpTo(c, Len(SlotOrder))
    ELSE LET k == FirstFailing(c) IN
         /\ c.out = ZodError(SlotOrder[k], c.req[SlotOrder[k]])
         /\ c.ran = ConfiguredUpTo(c, k)
         /\ \A j \in (k + 1)..Len(SlotOrder) :
              \A n \in 1..Len(c.ran) : c.ran[n] # SlotOrder[j]

\* an invoke whose params, headers and body are all invalid failed on params,
\* and only the params validator ran
C22_Witness ==
  \E i \in Calls :
    LET c == calls[i] IN
    /\ {"params", "headers", "body"} \subseteq FailingSlots(c)
    /\ c.pc = "done"
    /\ c.out.kind = "ZodError" /\ c.out.slot = "params"
    /\ c.ran = <<"params">>

\* mock() or unmock() was called on the call's endpoint after the call started
MockStateCallSince(c) == lastOp[c.ep] # c.op

\* C23: however mock() and unmock() interleave with the in-flight invokes of
\* an endpoint, an invoke whose request passes validation is dispatched once,
\* from the state read when it was dispatched, to exactly one target: the
\* transport, or the handler that a mock() call installed; the target is
\* never both and never changes while the invoke is in flight.
C23_OneTarget ==
  /\ [](\A i \in Calls :
          LET c == calls[i] IN
          FailingSlots(c) = {} =>
            /\ c.target = dispatch(c.state)
            /\ \/ c.target = [kind |-> "transport", fn |-> client.config.fetch]
               \/ c.target.kind = "handler" /\ c.target.fn = c.op /\ c.op \in Handlers
            /\ c.sent = (IF c.target.kind = "transport" THEN 1 ELSE 0)
            /\ c.target.kind = "handler" => c.resp = NoTransportResponse)
  /\ [][\A i \in Calls : calls'[i].target = calls[i].target]_vars

\* an invoke went to the transport, mock() or unmock() was called on its
\* endpoint while it was in flight, and it completed with the transport's
\* response
C23_Witness ==
  \E i \in Calls :
    LET c == calls[i] IN
    /\ c.pc = "done"
    /\ MockStateCallSince(c)
    /\ c.target.kind = "transport"
    /\ c.out.kind = "response"

----------------------------------------------------------------------------
(* C3: unmock() on a client or group *)

RECURSIVE GroupUnder(_, _)
\* group g was declared on node n, or on a group declared under n
GroupUnder(g, n) ==
  LET p == parent.groups[g] IN p = n \/ (p.kind = "group" /\ GroupUnder(p.id, n))

EndpointUnder(e, n) ==
  LET p == parent.endpoints[e] IN p = n \/ (p.kind = "group" /\ GroupUnder(p.id, n))

Descendants(n) == {e \in 1..Len(endpoints) : EndpointUnder(e, n)}

Live(e) == dispatch(endpoints[e]).kind = "transport"

\* C3: when the last call was unmock() on a client or group N, unmock() was
\* called exactly once on every endpoint declared under N at any depth, every
\* such endpoint is Live, and if the call before it was unmock() on N too,
\* this one changed no endpoint.
C3_UnmockBroadcast ==
  bcast.on # NoNode =>
    /\ \A e \in Descendants(bcast.on) :
         /\ Cardinality({i \in 1..Len(bcast.visits) : bcast.visits[i] = e}) = 1
         /\ Live(e)
    /\ bcast.again => endpoints = bcast.before

\* unmock() was called twice in a row on the client, over an endpoint declared
\* on a group and one declared on the client, of which, before the first call,
\* some had mock() called last and some had not
C3_Witness ==
  /\ bcast.on = ClientNode
  /\ bcast.again
  /\ bcast.mixed
  /\ \E e \in Descendants(ClientNode) : parent.endpoints[e].kind = "group"
  /\ \E e \in Descendants(ClientNode) : parent.endpoints[e] = ClientNode

----------------------------------------------------------------------------
(* SpecFrame: groups and endpoints are declared on one client, at any      *)
(* depth, and mocked and unmocked in any order.                            *)

NextFrame ==
  \/ \E p \in Paths : ClientGroup(p, Given(GroupCfg))
  \/ \E p \in Paths : ClientPost(p, Given(FullCfg))
  \/ \E g \in 1..Len(groups), p \in Paths : GroupGroup(g, p, NoConfig)
  \/ \E g \in 1..Len(groups), p \in Paths : GroupPost(g, p, Given(FullCfg))
  \/ \E e \in 1..Len(endpoints), h \in Handlers : EndpointMock(e, h)
  \/ \E e \in 1..Len(endpoints) : EndpointUnmock(e)
  \/ \E g \in 1..Len(groups) : GroupUnmock(g)
  \/ ClientUnmock

SpecFrame == InitTree /\ [][NextFrame]_vars

\* endpoint f is as it was before the step: its closure's state, and the last
\* mock-state call made on it
Kept(f) == endpoints'[f] = endpoints[f] /\ lastOp'[f] = lastOp[f]

\* C21: mock() or unmock() on an endpoint leaves every other endpoint as it
\* was, and unmock() on a group leaves every endpoint that is not declared
\* under it, at any depth, as it was: its state, its config and the last
\* mock-state call made on it.
C21_MockFrame ==
  [][/\ \A e \in 1..Len(endpoints) :
          (EndpointUnmock(e) \/ \E h \in Handlers : EndpointMock(e, h)) =>
            \A f \in 1..Len(endpoints) \ {e} : Kept(f)
     /\ \A g \in 1..Len(groups) :
          GroupUnmock(g) =>
            \A f \in 1..Len(endpoints) \ Descendants(GroupNode(g)) : Kept(f)]_vars

\* the last call was unmock() on a group declared on the client, which
\* reached an endpoint under it, while an endpoint declared on the client,
\* next to the group, still has mock(h) as its last mock-state call and is as
\* it was created
C21_Witness ==
  \E g \in 1..Len(groups) :
    /\ bcast.on = GroupNode(g)
    /\ parent.groups[g] = ClientNode
    /\ Descendants(GroupNode(g)) # {}
    /\ \E f \in 1..Len(endpoints) :
         /\ parent.endpoints[f] = ClientNode
         /\ lastOp[f] \in Handlers
         /\ endpoints[f] = created[f]

----------------------------------------------------------------------------
(* SpecLife: groups are declared on one client and endpoints on the groups; *)
(* the endpoints are mocked, unmocked and invoked in any order, while       *)
(* further groups and endpoints are declared.                               *)

NextLife ==
  \/ \E p \in Paths : ClientGroup(p, Given(GroupCfg))
  \/ \E g \in 1..Len(groups), p \in Paths : GroupPost(g, p, Given(FullCfg))
  \/ \E e \in 1..Len(endpoints), h \in TreeHandlers : EndpointMock(e, h)
  \/ \E e \in 1..Len(endpoints) : EndpointUnmock(e)
  \/ \E g \in 1..Len(groups) : GroupUnmock(g)
  \/ ClientUnmock
  \/ \E e \in 1..Len(endpoints) : Invoke(e, GoodRequest)
  \/ \E i \in 1..Len(calls) :
       FetchResolve(i, TransportResponse(200, GoodHeaders, GoodBody, TRUE))
  \/ \E i \in 1..Len(calls) : JsonResolve(i)
  \/ \E i \in 1..Len(calls) : Complete(i)

SpecLife == InitTree /\ [][NextLife]_vars

\* C24: no operation changes the config (validators, responses map, URL,
\* method) or the transport of a node that exists: not the declaration of a
\* child or of a sibling, not an invoke or any step of it, not mock, not
\* unmock.
C24_ConfigFrozen ==
  [][/\ \A e \in 1..Len(endpoints) :
          /\ endpoints'[e].config = endpoints[e].config
          /\ endpoints'[e].clientConfig = endpoints[e].clientConfig
     /\ \A g \in 1..Len(groups) :
          /\ groups'[g].config = groups[g].config
          /\ groups'[g].clientConfig = groups[g].clientConfig
     /\ client'.url = client.url
     /\ client'.config = client.config]_vars

\* an endpoint declared on a group, before a sibling of it, has been mocked
\* or unmocked and has completed an invoke with a validated response: it has
\* the config it was created with and its group the config it was declared with
C24_Witness ==
  \E e \in 1..Len(endpoints), i \in Calls :
    /\ parent.endpoints[e].kind = "group"
    /\ \E f \in (e + 1)..Len(endpoints) : parent.endpoints[f] = parent.endpoints[e]
    /\ lastOp[e] # "none"
    /\ calls[i].ep = e /\ calls[i].pc = "done" /\ calls[i].out.kind = "response"
    /\ endpoints[e].config = created[e].config
    /\ \E p \in Paths :
         groups[parent.endpoints[e].id].config =
           Spread([url |-> appendPath(BaseUrl, p)], GroupCfg)

----------------------------------------------------------------------------
(* SpecMerge: mergeConfigs on every pair of the configs below *)

SlotSchemas ==
  {NoSchema, Schema([a |-> "string"]), Schema([a |-> "number", b |-> "string"])}

ResponseMaps ==
  {NoResponses,
   Responses(EmptyObj),
   Responses(400 :> Entry(Schema([token |-> "string"]), NoSchema)),
   Responses((200 :> Entry(NoSchema, Schema([data |-> "string"])))
             @@ (400 :> Entry(NoSchema, Schema([message |-> "string"]))))}

MergeArgs ==
  {NoConfig} \cup
  {Given(Config(p, h, q, b, r)) :
     p \in SlotSchemas, h \in SlotSchemas, q \in SlotSchemas,
     b \in SlotSchemas, r \in ResponseMaps}

InitMerge ==
  /\ InitClient
  /\ calls = <<>>
  /\ mA \in MergeArgs
  /\ mB \in MergeArgs
  /\ mOut = NoMerge
  /\ mC = NoConfig /\ mAlt = NoMerge /\ chain = <<>>
  /\ trio = NoTrio
  /\ build = NoBuild /\ boot = Booted

Merge ==
  /\ ~mOut.done
  /\ mOut' = [done |-> TRUE, out |-> mergeConfigs(mA, mB)]
  /\ UNCHANGED <<client, groups, endpoints, lastOp, parent, created, bcast, calls,
                 mA, mB, mC, mAlt, chain, build, boot, trio>>

NextMerge == Merge

SpecMerge == InitMerge /\ [][NextMerge]_vars

\* the responses map of a config argument, an absent one having no keys
ResponsesOf(c) ==
  IF c.given /\ c.cfg.responses.def THEN c.cfg.responses.map ELSE EmptyObj

ParamsOf(c) == IF c.given THEN c.cfg.params ELSE NoSchema

HeadersOf(c) == IF c.given THEN c.cfg.headers ELSE NoSchema

QueryOf(c) == IF c.given THEN c.cfg.query ELSE NoSchema

BodyOf(c) == IF c.given THEN c.cfg.body ELSE NoSchema

\* C8: the merged responses map has the keys of the parent's and the child's
\* maps and no other; a status of the child's map has the child's entry, whole;
\* a status of the parent's map alone has the parent's entry.
C8_MergeResponses ==
  mOut.done =>
    LET pr == ResponsesOf(mA)
        ch == ResponsesOf(mB)
        out == ResponsesOf(mOut.out)
    IN /\ DOMAIN out = (DOMAIN pr) \cup (DOMAIN ch)
       /\ \A s \in DOMAIN ch : out[s] = ch[s]
       /\ \A s \in (DOMAIN pr) \ (DOMAIN ch) : out[s] = pr[s]

\* merged: a status declared by both with different entries, and one declared
\* by the parent alone
C8_Witness ==
  /\ mOut.done
  /\ \E s \in (DOMAIN ResponsesOf(mA)) \cap (DOMAIN ResponsesOf(mB)) :
       ResponsesOf(mA)[s] # ResponsesOf(mB)[s]
  /\ (DOMAIN ResponsesOf(mA)) \ (DOMAIN ResponsesOf(mB)) # {}

\* the claim on one slot: pa the parent's validator, ch the child's, out the merged
MergedSlotOk(pa, ch, out) ==
  IF pa.def /\ ch.def
  THEN /\ out.def
       /\ DOMAIN out.shape = (DOMAIN pa.shape) \cup (DOMAIN ch.shape)
       /\ \A f \in DOMAIN ch.shape : out.shape[f] = ch.shape[f]
       /\ \A f \in (DOMAIN pa.shape) \ (DOMAIN ch.shape) : out.shape[f] = pa.shape[f]
  ELSE IF ch.def THEN out = ch
  ELSE IF pa.def THEN out = pa
  ELSE ~out.def

\* C9: for params, headers and query: when both sides define the slot, the
\* merged schema has the fields of both, a field of both with the child's
\* definition; when one side defines it, the merged slot is that validator;
\* when neither does, the merged slot is undefined.
C9_MergeSlots ==
  mOut.done =>
    /\ MergedSlotOk(ParamsOf(mA), ParamsOf(mB), ParamsOf(mOut.out))
    /\ MergedSlotOk(HeadersOf(mA), HeadersOf(mB), HeadersOf(mOut.out))
    /\ MergedSlotOk(QueryOf(mA), QueryOf(mB), QueryOf(mOut.out))

\* merged: both sides define headers, one field in both with different types
\* and one field in one side only
C9_Witness ==
  /\ mOut.done
  /\ HeadersOf(mA).def /\ HeadersOf(mB).def
  /\ \E f \in (DOMAIN HeadersOf(mA).shape) \cap (DOMAIN HeadersOf(mB).shape) :
       HeadersOf(mA).shape[f] # HeadersOf(mB).shape[f]
  /\ (DOMAIN HeadersOf(mA).shape) \ (DOMAIN HeadersOf(mB).shape) # {}
  /\ ParamsOf(mA).def /\ ~ParamsOf(mB).def
  /\ ~QueryOf(mA).def /\ ~QueryOf(mB).def

\* C10: the merged body validator is the child's when the child defines one
\* and the parent's otherwise: it never has fields of both.
C10_MergeBody ==
  mOut.done =>
    BodyOf(mOut.out) = (IF BodyOf(mB).def THEN BodyOf(mB) ELSE BodyOf(mA))

\* merged: both sides define a body, with different fields
C10_Witness ==
  /\ mOut.done
  /\ BodyOf(mA).def /\ BodyOf(mB).def
  /\ DOMAIN BodyOf(mA).shape # DOMAIN BodyOf(mB).shape

----------------------------------------------------------------------------
(* SpecAssoc: mergeConfigs on three configs, grouped to the left and to    *)
(* the right.                                                              *)

AssocSchemas == SlotSchemas \cup {Schema([b |-> "number", c |-> "string"])}

AssocArgs ==
  {NoConfig} \cup
  {Given(Config(s, t, s, t, r)) : s \in AssocSchemas, t \in AssocSchemas, r \in ResponseMaps}

InitAssoc ==
  /\ InitClient
  /\ calls = <<>>
  /\ mA \in AssocArgs
  /\ mB \in AssocArgs
  /\ mC \in AssocArgs
  /\ mOut = NoMerge
  /\ mAlt = NoMerge
  /\ trio = NoTrio
  /\ chain = <<>>
  /\ build = NoBuild /\ boot = Booted

\* mergeConfigs(mergeConfigs(a, b), c)
MergeLeft ==
  /\ ~mOut.done
  /\ mOut' = [done |-> TRUE, out |-> mergeConfigs(mergeConfigs(mA, mB), mC)]
  /\ UNCHANGED <<client, groups, endpoints, lastOp, parent, created, bcast, calls,
                 mA, mB, mC, mAlt, chain, build, boot, trio>>

\* mergeConfigs(a, mergeConfigs(b, c))
MergeRight ==
  /\ ~mAlt.done
  /\ mAlt' = [done |-> TRUE, out |-> mergeConfigs(mA, mergeConfigs(mB, mC))]
  /\ UNCHANGED <<client, groups, endpoints, lastOp, parent, created, bcast, calls,
                 mA, mB, mC, mOut, chain, build, boot, trio>>

NextAssoc == MergeLeft \/ MergeRight

SpecAssoc == InitAssoc /\ [][NextAssoc]_vars

\* C12: merging a, b, c grouped to the left and grouped to the right gives
\* the same params, headers and query validators (the same slots defined, with
\* the same fields of the same types), the same body validator and the same
\* responses map.
C12_MergeAssociative ==
  (mOut.done /\ mAlt.done) =>
    /\ ParamsOf(mOut.out) = ParamsOf(mAlt.out)
    /\ HeadersOf(mOut.out) = HeadersOf(mAlt.out)
    /\ QueryOf(mOut.out) = QueryOf(mAlt.out)
    /\ BodyOf(mOut.out) = BodyOf(mAlt.out)
    /\ ResponsesOf(mOut.out) = ResponsesOf(mAlt.out)

\* both groupings computed of three given configs: the params validators are
\* three different schemas, the responses maps are three different maps, and
\* of the headers only the first and the last are defined
C12_Witness ==
  /\ mOut.done /\ mAlt.done
  /\ mA.given /\ mB.given /\ mC.given
  /\ ParamsOf(mA).def /\ ParamsOf(mB).def /\ ParamsOf(mC).def
  /\ Cardinality({ParamsOf(mA), ParamsOf(mB), ParamsOf(mC)}) = 3
  /\ Cardinality({ResponsesOf(mA), ResponsesOf(mB), ResponsesOf(mC)}) = 3
  /\ HeadersOf(mA).def /\ ~HeadersOf(mB).def /\ HeadersOf(mC).def

----------------------------------------------------------------------------
(* SpecChain: client.group(p, chain[1]).group(p, chain[2]) ... .METHOD(p,   *)
(* chain[n + 1]), one declaration at a time.                               *)

\* a group on several slots that redeclares the shared status with a body
MidCfg ==
  Config(Schema([org |-> "number"]), Schema([lang |-> "string", token |-> "number"]),
         NoSchema, Schema([name |-> "string"]),
         Responses((500 :> Entry(NoSchema, Schema([message |-> "string"])))
                   @@ (401 :> Entry(NoSchema, NoSchema))))

ChainConfigs == {NoConfig, Given(EmptyConfig), Given(GroupCfg), Given(MidCfg), Given(FullCfg)}

\* one config for each group and one for the endpoint
Chains == UNION {[1..n -> ChainConfigs] : n \in 2..MaxNodes}

InitChain ==
  /\ InitClient
  /\ calls = <<>>
  /\ mA = NoConfig /\ mB = NoConfig /\ mOut = NoMerge
  /\ mC = NoConfig /\ mAlt = NoMerge
  /\ trio = NoTrio
  /\ build = NoBuild /\ boot = Booted
  /\ chain \in Chains

\* the groups of the chain are declared, the endpoint is not
GroupsDeclared == Len(groups) = Len(chain) - 1 /\ endpoints = <<>>

NextChain ==
  \/ \E p \in Paths : groups = <<>> /\ ClientGroup(p, chain[1])
  \/ \E p \in Paths :
       /\ groups # <<>>
       /\ Len(groups) < Len(chain) - 1
       /\ GroupGroup(Len(groups), p, chain[Len(groups) + 1])
  \/ \E p \in Paths : GroupsDeclared /\ GroupGet(Len(groups), p, chain[Len(chain)])
  \/ \E p \in Paths : GroupsDeclared /\ GroupPost(Len(groups), p, chain[Len(chain)])
  \/ \E p \in Paths : GroupsDeclared /\ GroupPut(Len(groups), p, chain[Len(chain)])
  \/ \E p \in Paths : GroupsDeclared /\ GroupDelete(Len(groups), p, chain[Len(chain)])

SpecChain == InitChain /\ [][NextChain]_vars

\* what level l of the chain declares
DeclaredAt(l) == IF chain[l].given THEN chain[l].cfg ELSE EmptyConfig

\* the levels that declare a validator for the slot
SlotLevels(slot) == {l \in 1..Len(chain) : DeclaredAt(l)[slot].def}

\* the levels whose validator for the slot has field f
FieldLevels(slot, f) == {l \in SlotLevels(slot) : f \in DOMAIN DeclaredAt(l)[slot].shape}

\* the levels that declare status s
StatusLevels(s) ==
  {l \in 1..Len(chain) :
     DeclaredAt(l).responses.def /\ s \in DOMAIN DeclaredAt(l).responses.map}

ChainFields(slot) == UNION {DOMAIN DeclaredAt(l)[slot].shape : l \in SlotLevels(slot)}

ChainStatuses ==
  UNION {DOMAIN DeclaredAt(l).responses.map :
           l \in {k \in 1..Len(chain) : DeclaredAt(k).responses.def}}

\* the level of L nearest to the endpoint
Nearest(L) == CHOOSE l \in L : \A k \in L : k <= l

\* the effective config of the chain's endpoint
Effective == endpoints[1].config

EffectiveResponses == IF Effective.responses.def THEN Effective.responses.map ELSE EmptyObj

\* C11: once the endpoint of a chain of n >= 1 groups is declared, its
\* effective config is the fold of the chain's declared configs: its responses
\* map has every status some level declares, with the entry of the level
\* nearest to the endpoint that declares it; each of params, headers and query
\* is defined when some level defines it and then has every field some level
\* declares, with the type of the nearest level that declares it; its body is
\* that of the nearest level that defines one.
C11_ChainFold ==
  Len(endpoints) = 1 =>
    /\ DOMAIN EffectiveResponses = ChainStatuses
    /\ \A s \in ChainStatuses :
         EffectiveResponses[s] = DeclaredAt(Nearest(StatusLevels(s))).responses.map[s]
    /\ \A slot \in {"params", "headers", "query"} :
         /\ Effective[slot].def <=> SlotLevels(slot) # {}
         /\ DOMAIN Effective[slot].shape = ChainFields(slot)
         /\ \A f \in ChainFields(slot) :
              Effective[slot].shape[f] = DeclaredAt(Nearest(FieldLevels(slot, f)))[slot].shape[f]
    /\ Effective.body = (IF SlotLevels("body") = {} THEN NoSchema
                         ELSE DeclaredAt(Nearest(SlotLevels("body"))).body)

\* an endpoint under two groups: the outer group declares a status that the
\* inner one redeclares with another entry, the endpoint declares others; the
\* headers have a field of the outer group that the inner one retypes and the
\* endpoint retypes again
C11_Witness ==
  /\ Len(endpoints) = 1
  /\ Len(groups) >= 2
  /\ \E s \in ChainStatuses :
       /\ StatusLevels(s) = {1, 2}
       /\ DeclaredAt(1).responses.map[s] # DeclaredAt(2).responses.map[s]
  /\ \E s \in ChainStatuses : StatusLevels(s) = {Len(chain)}
  /\ \E f \in ChainFields("headers") :
       /\ FieldLevels("headers", f) = 1..Len(chain)
       /\ DeclaredAt(1).headers.shape[f] # DeclaredAt(2).headers.shape[f]
       /\ DeclaredAt(2).headers.shape[f] # DeclaredAt(Len(chain)).headers.shape[f]
  /\ \E f \in ChainFields("params") : FieldLevels("params", f) = {2}

----------------------------------------------------------------------------
(* SpecUrl: appendPath(base, path), then buildUrl on the result.           *)

UrlBases == {BaseUrl, BaseUrl \o <<"/">>}

UrlPaths ==
  Paths \cup
  { <<"u", "/", ":", "i", "d", "x">>,
    <<"/", ":", "i", "d", "x", "/", ":", "i", "d">>,
    <<"/", "u">>,
    <<"i", "d", "x">> }

UrlParams ==
  {EmptyObj, [id |-> "1"], [idx |-> "2"], [id |-> "1", idx |-> "2"], [id |-> "1", junk |-> "x"]}

UrlQueries == {EmptyObj, [page |-> "2"], [page |-> "2", q |-> "&"]}

InitUrl ==
  /\ InitClient
  /\ calls = <<>>
  /\ mA = NoConfig /\ mB = NoConfig /\ mOut = NoMerge
  /\ mC = NoConfig /\ mAlt = NoMerge
  /\ trio = NoTrio
  /\ chain = <<>>
  /\ boot = Booted
  /\ \E b \in UrlBases, p \in UrlPaths, ps \in UrlParams, q \in UrlQueries :
       build = [NoBuild EXCEPT !.base = b, !.path = p, !.params = ps, !.query = q]

OtherUrl ==
  UNCHANGED <<client, groups, endpoints, lastOp, parent, created, bcast, calls,
              mA, mB, mOut, mC, mAlt, chain, boot, trio>>

\* appendPath(url, path), as a factory calls it
AppendPath ==
  /\ ~build.joined
  /\ build' = [build EXCEPT !.joined = TRUE, !.url = appendPath(build.base, build.path)]
  /\ OtherUrl

\* buildUrl(url, req.params || {}, req.query || {}), as createFetchRequest calls it
BuildUrl ==
  /\ build.joined
  /\ ~build.done
  /\ build' = [build EXCEPT !.done = TRUE,
                            !.out = buildUrl(build.url, build.params, build.query)]
  /\ OtherUrl

NextUrl == AppendPath \/ BuildUrl

SpecUrl == InitUrl /\ [][NextUrl]_vars

RECURSIVE PathPart(_)
\* the part of a URL before its "?"
PathPart(s) ==
  IF s = <<>> \/ Head(s) = "?" THEN <<>> ELSE <<Head(s)>> \o PathPart(Tail(s))

IsNameChar(c) == c \notin {"/", ":", "?", "&", "=", "%", "+", "."}

RECURSIVE NameAt(_)
\* the longest run of name characters that s starts with
NameAt(s) ==
  IF s = <<>> \/ ~IsNameChar(Head(s)) THEN <<>> ELSE <<Head(s)>> \o NameAt(Tail(s))

RECURSIVE Tokens(_)
\* the names of the ':name' tokens of s, in order
Tokens(s) ==
  IF s = <<>> THEN <<>>
  ELSE IF Head(s) = ":" /\ NameAt(Tail(s)) # <<>>
  THEN <<NameAt(Tail(s))>> \o Tokens(SubSeq(s, 2 + Len(NameAt(Tail(s))), Len(s)))
  ELSE Tokens(Tail(s))

IsPrefix(a, b) == Len(a) <= Len(b) /\ SubSeq(b, 1, Len(a)) = a

\* the keys of the params whose name is a proper prefix of the token name n
ShorterKeys(n) == {k \in DOMAIN build.params : IsPrefix(Spell[k], n) /\ Spell[k] # n}

\* no key of the params is the text following the token's ':' or its start
Unresolved(n) == \A k \in DOMAIN build.params : ~IsPrefix(Spell[k], n)

\* with leading and trailing "/" removed
Trimmed(s) ==
  LET a == IF s # <<>> /\ Head(s) = "/" THEN Tail(s) ELSE s
  IN IF a # <<>> /\ a[Len(a)] = "/" THEN SubSeq(a, 1, Len(a) - 1) ELSE a

\* C13: when a path segment of the template is a placeholder :long and a key
\* of the params is a proper prefix of long, the built URL has, in that
\* segment, long's value if long is a key of the params, and :long otherwise.
C13_LongestFirst ==
  build.done =>
    LET tpl == SplitSegs(build.url)
        res == SplitSegs(PathPart(build.out))
    IN /\ Len(res) = Len(tpl)
       /\ \A i \in 1..Len(tpl) :
            (Tokens(tpl[i]) # <<>> /\ tpl[i] = <<":">> \o Tokens(tpl[i])[1]
               /\ ShorterKeys(Tokens(tpl[i])[1]) # {}) =>
              LET long == Tokens(tpl[i])[1]
                  keys == {k \in DOMAIN build.params : Spell[k] = long}
              IN res[i] = (IF keys = {} THEN tpl[i]
                           ELSE ToChars(build.params[CHOOSE k \in keys : TRUE]))

\* C14: appendPath(base, path) is the base without a trailing "/", then one
\* "/", then the path without a leading "/".
C14_JoinOneSeparator ==
  build.joined =>
    build.url =
      (IF build.base[Len(build.base)] = "/"
       THEN SubSeq(build.base, 1, Len(build.base) - 1) ELSE build.base)
      \o <<"/">>
      \o (IF Head(build.path) = "/" THEN Tail(build.path) ELSE build.path)

\* C15: when the URL that appendPath returned has no ':name' token, the URL
\* built from it with any params is that URL, then "?" and the query string.
C15_ResolvedUrlUnchanged ==
  (build.done /\ Tokens(build.url) = <<>>) => PathPart(build.out) = build.url

\* a URL with no token, holding the name of a key of the params without a ':'
C15_Witness ==
  /\ build.done
  /\ Tokens(build.url) = <<>>
  /\ \E k \in DOMAIN build.params :
       \E i \in 1..Len(build.url) :
         IsPrefix(Spell[k], SubSeq(build.url, i, Len(build.url)))
  /\ DOMAIN build.query # {}

\* C16: the tokens that no key of the params matches are in the built URL as
\* they were in the template, in the same order, and they are its only tokens.
C16_UnresolvedLeft ==
  build.done =>
    Tokens(PathPart(build.out)) = SelectSeq(Tokens(build.url), Unresolved)

\* built: one token of the template was replaced and another, that no key
\* matches, was left
C16_Witness ==
  /\ build.done
  /\ \E i \in 1..Len(Tokens(build.url)) : Unresolved(Tokens(build.url)[i])
  /\ \E i \in 1..Len(Tokens(build.url)) : ~Unresolved(Tokens(build.url)[i])
  /\ Len(Tokens(PathPart(build.out))) = 1

----------------------------------------------------------------------------
(* SpecClient: createClient(url, options) under each global.fetch, then    *)
(* declarations on the client it returned.  A fetch is "fetch" (the global *)
(* function), "custom" (a function of the caller), "undefined" or "null".  *)

FetchTruthy(f) == f \notin {"undefined", "null"}

\* const defaultConfig = {fetch: global.fetch || null}
defaultConfig(globalFetch) == [fetch |-> IF FetchTruthy(globalFetch) THEN globalFetch ELSE "null"]

\* options.fetch
OptionFetch(options) == IF "fetch" \in DOMAIN options THEN options.fetch ELSE "undefined"

\* no client: createClient was not called, or threw
NoClient ==
  [url |-> <<>>, config |-> [fetch |-> "undefined"], groups |-> <<>>, endpoints |-> <<>>]

\* createClient(url, options), to its return or its throw
createClient(url, options, globalFetch) ==
  IF ~FetchTruthy(defaultConfig(globalFetch).fetch) /\ ~FetchTruthy(OptionFetch(options))
  THEN [threw |-> TRUE, client |-> NoClient]
  ELSE [threw |-> FALSE,
        client |-> [url |-> url, config |-> Spread(defaultConfig(globalFetch), options),
                    groups |-> <<>>, endpoints |-> <<>>]]

GlobalFetches == {"fetch", "undefined"}

\* options omitted or {}, {fetch: undefined}, {fetch: custom}
ClientOptions == {EmptyObj, [fetch |-> "undefined"], [fetch |-> "custom"]}

InitBoot ==
  /\ client = NoClient
  /\ groups = <<>>
  /\ endpoints = <<>>
  /\ lastOp = <<>>
  /\ parent = [groups |-> <<>>, endpoints |-> <<>>]
  /\ created = <<>>
  /\ bcast = NoBcast
  /\ calls = <<>>
  /\ mA = NoConfig /\ mB = NoConfig /\ mOut = NoMerge
  /\ mC = NoConfig /\ mAlt = NoMerge
  /\ trio = NoTrio
  /\ chain = <<>>
  /\ build = NoBuild
  /\ \E g \in GlobalFetches, o \in ClientOptions : boot = Boot(g, o)

CreateClient ==
  /\ ~boot.done
  /\ LET r == createClient(BaseUrl, boot.options, boot.globalFetch)
     IN /\ boot' = [boot EXCEPT !.done = TRUE, !.threw = r.threw]
        /\ client' = r.client
  /\ UNCHANGED <<groups, endpoints, lastOp, parent, created, bcast, calls,
                 mA, mB, mOut, mC, mAlt, chain, build, trio>>

\* createClient returned a client
Constructed == boot.done /\ ~boot.threw

NextClient ==
  \/ CreateClient
  \/ \E p \in Paths, c \in TreeConfigs : Constructed /\ ClientGroup(p, c)
  \/ \E p \in Paths, c \in TreeConfigs : Constructed /\ ClientGet(p, c)
  \/ \E p \in Paths, c \in TreeConfigs : Constructed /\ ClientPost(p, c)
  \/ \E p \in Paths, c \in TreeConfigs : Constructed /\ ClientPut(p, c)
  \/ \E p \in Paths, c \in TreeConfigs : Constructed /\ ClientDelete(p, c)
  \/ \E g \in 1..Len(groups), p \in Paths, c \in TreeConfigs : GroupGroup(g, p, c)
  \/ \E g \in 1..Len(groups), p \in Paths, c \in TreeConfigs : GroupGet(g, p, c)
  \/ \E g \in 1..Len(groups), p \in Paths, c \in TreeConfigs : GroupPost(g, p, c)
  \/ \E g \in 1..Len(groups), p \in Paths, c \in TreeConfigs : GroupPut(g, p, c)
  \/ \E g \in 1..Len(groups), p \in Paths, c \in TreeConfigs : GroupDelete(g, p, c)

SpecClient == InitBoot /\ [][NextClient]_vars

\* a transport that can be called
Callable(f) == f \in {"fetch", "custom"}

\* C20: createClient throws, and there is no client, exactly when global.fetch
\* is no function and the options supply none; when it returns, the transport
\* of every endpoint declared on the client or under a group of it is a
\* function.
C20_ConstructionNeedsTransport ==
  boot.done =>
    /\ boot.threw <=> (~Callable(boot.globalFetch) /\ ~Callable(OptionFetch(boot.options)))
    /\ boot.threw => client = NoClient /\ endpoints = <<>>
    /\ ~boot.threw =>
         \A e \in 1..Len(endpoints) : Callable(endpoints[e].clientConfig.fetch)

----------------------------------------------------------------------------
(* SpecEmpty: one endpoint declared three ways from a config a: on a group  *)
(* of config a with the config {}, on that group with no config argument,  *)
(* and on the client with the config a; each validates the same request    *)
(* and the same response of the transport.                                 *)

\* no config, FullCfg's validators without a responses map, and two configs
\* with one
TrioConfigs ==
  {EmptyConfig,
   Config(Schema([id |-> "number"]), Schema([token |-> "string"]),
          Schema([page |-> "number"]), Schema([email |-> "string"]), NoResponses),
   GroupCfg, FullCfg}

\* client.group(path, a).post(path, endpointConfig)
underGroup(a, path, endpointConfig) ==
  LET group == createGroup(ClientConfig, appendPath(BaseUrl, path), Given(a)) IN
  createEndpoint(group.clientConfig, "POST", appendPath(group.config.url, path),
                 mergeConfigs(closureConfig(group), endpointConfig))

\* client.post(path, a)
onClient(a, path) ==
  createEndpoint(ClientConfig, "POST", appendPath(BaseUrl, path), Given(a))

\* what handle makes of req when the transport answers with resp: the
\* validated request, and the value it resolves or rejects with
validate(state, req, resp) ==
  LET v == validateRequest(state, req) IN
  [done |-> TRUE,
   vreq |-> v.req,
   out |-> IF ~v.ok THEN v.err
           ELSE IF ~resp.json THEN JsonError
           ELSE validateResponse(state, createResponse(resp))]

InitEmpty ==
  /\ InitClient
  /\ calls = <<>>
  /\ mA = NoConfig /\ mB = NoConfig /\ mOut = NoMerge
  /\ mC = NoConfig /\ mAlt = NoMerge
  /\ chain = <<>>
  /\ build = NoBuild
  /\ boot = Booted
  /\ \E a \in TrioConfigs, req \in Requests, resp \in TransportResponses :
       LET notYet == [done |-> FALSE, vreq |-> NoRequest, out |-> Pending] IN
       trio = [drawn |-> TRUE, a |-> a, req |-> req, resp |-> resp,
               withEmpty |-> notYet, withNone |-> notYet, asSelf |-> notYet]

\* the endpoint declared in one of the three ways is invoked: on the group
\* with {}, on the group with no config argument, on the client with a
InvokeDeclared(way, path) ==
  /\ ~trio[way].done
  /\ LET endpoint == CASE way = "withEmpty" -> underGroup(trio.a, path, Given(EmptyConfig))
                       [] way = "withNone" -> underGroup(trio.a, path, NoConfig)
                       [] way = "asSelf" -> onClient(trio.a, path)
     IN trio' = [trio EXCEPT ![way] = validate(endpoint, trio.req, trio.resp)]
  /\ UNCHANGED <<client, groups, endpoints, lastOp, parent, created, bcast, calls,
                 mA, mB, mOut, mC, mAlt, chain, build, boot>>

NextEmpty ==
  \/ \E p \in Paths : InvokeDeclared("withEmpty", p)
  \/ \E p \in Paths : InvokeDeclared("withNone", p)
  \/ \E p \in Paths : InvokeDeclared("asSelf", p)

SpecEmpty == InitEmpty /\ [][NextEmpty]_vars

\* C27: for every config a, the endpoint declared on a group of config a
\* with the config {}, the one declared on it with no config argument and
\* the one declared with the config a validate a request and a response
\* alike; when a declares no responses, a response to a valid request passes
\* through in all three, whatever its status.
C27_EmptyConfigIdentity ==
  (trio.withEmpty.done /\ trio.withNone.done /\ trio.asSelf.done) =>
    /\ trio.withEmpty = trio.withNone
    /\ trio.withNone = trio.asSelf
    /\ (~trio.a.responses.def /\ trio.resp.json
          /\ trio.asSelf.out.kind # "ZodError") =>
         \A r \in {trio.withEmpty, trio.withNone, trio.asSelf} :
           r.out = createResponse(trio.resp)

====
